---- MODULE Spec2Model ----
(***************************************************************************)
(* Model of the line-oriented FASTA / FASTQ readers of prseq.              *)
(*                                                                         *)
(* A file is a sequence of one-character strings; "\n" is the only line    *)
(* terminator the readers see (files are opened in text mode).  The        *)
(* readers are Python generators: every action below is one iteration of   *)
(* one of their loops (one readline), and a yield hands a record to the    *)
(* caller by appending it to  records.                                     *)
(***************************************************************************)
EXTENDS Integers, Sequences, FiniteSets, TLC

VARIABLES
    data,          \* the content of the file being read / written
    pos,           \* index in data of the next unread character
    pc,            \* position of the generator (or of the writer)
    outcome,       \* what the current pull has produced so far
    records,       \* the records yielded so far, in order
    line,          \* read_fasta: the loop variable, kept across a yield
    current_id,    \* read_fasta: <<>> is None, <<id>> is an open header
    current_seq,   \* read_fasta: list of stripped sequence lines
    id_str,        \* read_fastq
    seq_parts,     \* read_fastq
    seq_str,       \* read_fastq
    qual_parts,    \* read_fastq
    qual_length,   \* read_fastq
    written,       \* generate_fasta: the (id, sequence) pairs written so far
    line_length,   \* generate_fasta: the wrap width, -1 for unwrapped
    alt,           \* a second file, read after the first one
    first,         \* what reading the first file gave: <<>> or <<result>>
    call,          \* prseq API: the call made and its arguments
    content,       \* prseq API: the logical text of the source
    codec,         \* prseq API: how the source holds it (none, gzip, bzip2)
    native,        \* prseq API: the native reader object
    listed,        \* prseq API: what the read-all function returned
    zc,            \* the whole-file zero-copy reader object
    st,            \* the streaming reader object
    cli            \* fasta-filter: its counters, output streams and exit code

vars == <<data, pos, pc, outcome, records, line, current_id, current_seq,
          id_str, seq_parts, seq_str, qual_parts, qual_length,
          written, line_length,
          alt, first, call, content, codec, native, listed, zc, st, cli>>

\* the variables of the second read and of the prseq package readers
extVars == <<alt, first, call, content, codec, native, listed, zc, st, cli>>

(***************************************************************************)
(* Bounds                                                                  *)
(***************************************************************************)
MaxFastqLines == 6
MaxFastaLines == 5
MaxSpin == 2
MaxGenRecords == 2
MaxTextLen == 3
MaxWidth == 3

NL == "\n"

(***************************************************************************)
(* String helpers (Python str methods used by the readers)                 *)
(***************************************************************************)
Min(a, b) == IF a < b THEN a ELSE b

\* index of the "\n" that ends the line starting at p, or Len(d) if none
LineEnd(d, p) ==
    IF \E i \in p..Len(d) : d[i] = NL
    THEN CHOOSE i \in p..Len(d) : d[i] = NL /\ \A j \in p..(i - 1) : d[j] # NL
    ELSE Len(d)

\* f.readline(): the line with its terminator; <<>> at end of file
readline(d, p) == IF p > Len(d) THEN <<>> ELSE SubSeq(d, p, LineEnd(d, p))

\* s.rstrip('\n\r')
RECURSIVE rstrip(_)
rstrip(s) ==
    IF s # <<>> /\ s[Len(s)] \in {"\n", "\r"}
    THEN rstrip(SubSeq(s, 1, Len(s) - 1))
    ELSE s

\* s.startswith(c)
startswith_WholeLine(s, c) == rstrip(s) = <<c>>

startswith(s, c) == Len(s) > 0 /\ s[1] = c

\* s[1:]
DropFirst(s) == IF Len(s) <= 1 THEN <<>> ELSE SubSeq(s, 2, Len(s))

\* ''.join(parts)
RECURSIVE join(_)
join(parts) ==
    IF parts = <<>> THEN <<>> ELSE Head(parts) \o join(Tail(parts))

FastaRecord(id, sequence) == [id |-> id, sequence |-> sequence]

FastqRecord(id, sequence, quality) ==
    [id |-> id, sequence |-> sequence, quality |-> quality]

(***************************************************************************)
(* Input files                                                             *)
(***************************************************************************)
SeqsUpTo(S, n) == UNION {[1..k -> S] : k \in 0..n}

\* the lines joined with "\n"; the last line ends in "\n" iff finalNl
RECURSIVE FileOf(_, _)
FileOf(ls, finalNl) ==
    IF ls = <<>> THEN <<>>
    ELSE IF Len(ls) = 1 THEN Head(ls) \o (IF finalNl THEN <<NL>> ELSE <<>>)
    ELSE Head(ls) \o <<NL>> \o FileOf(Tail(ls), finalNl)

FastqLineKinds == { <<"@", "a">>, <<"A", "C">>, <<"I">>, <<"+">>, <<>> }

FastaLineKinds ==
    { <<">", "s", " ", "d">>, <<">">>, <<">", ">">>, <<"A", "C">>, <<"G">>, <<>> }

(***************************************************************************)
(* read_fastq (benchmark/benchmarks/bench_pure_python.py)                  *)
(***************************************************************************)
\* the generator before its first pull, over file content d
ReaderStart(d, start) ==
    /\ data = d
    /\ pos = 1
    /\ pc = start
    /\ outcome = "running"
    /\ records = <<>>
    /\ line = <<>>
    /\ current_id = <<>>
    /\ current_seq = <<>>
    /\ id_str = <<>>
    /\ seq_parts = <<>>
    /\ seq_str = <<>>
    /\ qual_parts = <<>>
    /\ qual_length = 0

\* a call of the prseq package; None is <<>>, a value v is <<v>>
Call(fn, path, file, hint) ==
    [fn |-> fn, path |-> path, file |-> file, hint |-> hint]

NoCall == Call("none", <<>>, <<>>, <<>>)

\* no second file, no prseq reader
ExtIdle ==
    /\ alt = <<>>
    /\ first = <<>>
    /\ call = NoCall
    /\ content = <<>>
    /\ codec = "none"
    /\ native = <<>>
    /\ listed = <<>>
    /\ zc = <<>>
    /\ st = <<>>
    /\ cli = <<>>

InitFastq ==
    /\ ExtIdle
    /\ \E ls \in SeqsUpTo(FastqLineKinds, MaxFastqLines), finalNl \in BOOLEAN :
          ReaderStart(FileOf(ls, finalNl), "id")
    /\ written = <<>>
    /\ line_length = -1

\* line 54: if not id_line
end_of_input_Never(id_line) == FALSE

end_of_input(id_line) == id_line = <<>>

\* lines 53-57 and 60: read the id line; end of file ends the generator
FastqReadId ==
    /\ UNCHANGED extVars
    /\ pc = "id"
    /\ LET id_line == readline(data, pos) IN
       IF end_of_input(id_line)
       THEN /\ pc' = "done"
            /\ outcome' = "stop"
            /\ UNCHANGED <<pos, id_str, seq_parts>>
       ELSE /\ id_str' = DropFirst(rstrip(id_line))
            /\ seq_parts' = <<>>
            /\ pos' = pos + Len(id_line)
            /\ pc' = "seq"
            /\ outcome' = "running"
    /\ UNCHANGED <<data, records, line, current_id, current_seq, seq_str,
                   qual_parts, qual_length, written, line_length>>

\* lines 61-71: one iteration of the sequence loop; on break, join the
\* sequence and reset the quality accumulators
FastqReadSeq ==
    /\ UNCHANGED extVars
    /\ pc = "seq"
    /\ LET l == readline(data, pos) IN
       /\ pos' = pos + Len(l)
       /\ IF l = <<>> \/ startswith(l, "+")
          THEN /\ seq_str' = join(seq_parts)
               /\ qual_parts' = <<>>
               /\ qual_length' = 0
               /\ pc' = "qual"
               /\ UNCHANGED seq_parts
          ELSE /\ seq_parts' = Append(seq_parts, rstrip(l))
               /\ UNCHANGED <<seq_str, qual_parts, qual_length, pc>>
    /\ UNCHANGED <<data, outcome, records, line, current_id, current_seq,
                   id_str, written, line_length>>

\* line 72: while qual_length < len(seq_str)
quality_incomplete_OffByOne == qual_length <= Len(seq_str)

quality_incomplete == qual_length < Len(seq_str)

\* line 76: qual_length += len(line), whatever the line begins with
added_length_MarkersNotCounted(line_stripped) ==
    IF line_stripped # <<>> /\ line_stripped[1] \in {"@", "+", ">"} THEN 0
    ELSE Len(line_stripped)

added_length(line_stripped) == Len(line_stripped)

\* lines 72-76: one iteration of the quality loop.  At end of file readline
\* returns '' and the loop condition stays true; the number of such
\* iterations followed here is capped.
FastqReadQual ==
    /\ UNCHANGED extVars
    /\ pc = "qual"
    /\ quality_incomplete
    /\ Len(qual_parts) < MaxFastqLines + MaxSpin
    /\ LET l == readline(data, pos)
           line_stripped == rstrip(l)
       IN /\ pos' = pos + Len(l)
          /\ qual_parts' = Append(qual_parts, line_stripped)
          /\ qual_length' = qual_length + added_length(line_stripped)
    /\ UNCHANGED <<data, pc, outcome, records, line, current_id, current_seq,
                   id_str, seq_parts, seq_str, written, line_length>>

\* lines 72, 78-80: the quality loop ends and the record is yielded
FastqYield ==
    /\ UNCHANGED extVars
    /\ pc = "qual"
    /\ ~quality_incomplete
    /\ LET qual_str == join(qual_parts) IN
       records' = Append(records, FastqRecord(id_str, seq_str, qual_str))
    /\ outcome' = "record"
    /\ pc' = "id"
    /\ UNCHANGED <<data, pos, line, current_id, current_seq, id_str,
                   seq_parts, seq_str, qual_parts, qual_length,
                   written, line_length>>

NextFastq == FastqReadId \/ FastqReadSeq \/ FastqReadQual \/ FastqYield

SpecFastq == InitFastq /\ [][NextFastq]_vars

(***************************************************************************)
(* read_fasta (benchmark/benchmarks/bench_pure_python.py)                  *)
(***************************************************************************)
\* line 30: line = line.rstrip('\n\r')
strip_line_NoStrip(raw) == raw

strip_line(raw) == rstrip(raw)

\* line 38: current_id = line[1:]
header_id_NameOnly(l) ==
    LET rest == DropFirst(l)
        sp == {i \in 1..Len(rest) : rest[i] = " "}
    IN IF sp = {} THEN rest
       ELSE SubSeq(rest, 1, (CHOOSE i \in sp : \A j \in sp : i <= j) - 1)

header_id(l) == DropFirst(l)

\* lines 34 and 44: current_id is not None
record_open_NeedsSequence == current_id # <<>> /\ current_seq # <<>>

record_open == current_id # <<>>

\* line 39: current_seq = []
empty_seq_KeepsLines == current_seq

empty_seq == <<>>

InitFasta ==
    /\ ExtIdle
    /\ \E ls \in SeqsUpTo(FastaLineKinds, MaxFastaLines), finalNl \in BOOLEAN :
          ReaderStart(FileOf(ls, finalNl), "loop")
    /\ written = <<>>
    /\ line_length = -1

\* lines 29-41: one iteration of  for line in f,  up to its yield if any
FastaLine ==
    /\ UNCHANGED extVars
    /\ pc = "loop"
    /\ pos <= Len(data)
    /\ LET raw == readline(data, pos)
           l == strip_line(raw)
       IN /\ pos' = pos + Len(raw)
          /\ line' = l
          /\ IF startswith(l, ">")
             THEN IF record_open
                  THEN /\ records' = Append(records,
                               FastaRecord(current_id[1], join(current_seq)))
                       /\ outcome' = "record"
                       /\ pc' = "resume"
                       /\ UNCHANGED <<current_id, current_seq>>
                  ELSE /\ current_id' = <<header_id(l)>>
                       /\ current_seq' = empty_seq
                       /\ UNCHANGED <<records, outcome, pc>>
             ELSE /\ current_seq' = Append(current_seq, l)
                  /\ UNCHANGED <<records, outcome, pc, current_id>>
    /\ UNCHANGED <<data, id_str, seq_parts, seq_str, qual_parts, qual_length,
                   written, line_length>>

\* lines 37-39: the next pull resumes after the yield of line 35
FastaResume ==
    /\ UNCHANGED extVars
    /\ pc = "resume"
    /\ current_id' = <<header_id(line)>>
    /\ current_seq' = empty_seq
    /\ outcome' = "running"
    /\ pc' = "loop"
    /\ UNCHANGED <<data, pos, records, line, id_str, seq_parts, seq_str,
                   qual_parts, qual_length, written, line_length>>

\* lines 43-45: the loop is over; yield the final record if a header is open
FastaFinal ==
    /\ UNCHANGED extVars
    /\ pc = "loop"
    /\ pos > Len(data)
    /\ IF record_open
       THEN /\ records' = Append(records,
                    FastaRecord(current_id[1], join(current_seq)))
            /\ outcome' = "record"
            /\ pc' = "final"
       ELSE /\ outcome' = "stop"
            /\ pc' = "done"
            /\ UNCHANGED records
    /\ UNCHANGED <<data, pos, line, current_id, current_seq, id_str,
                   seq_parts, seq_str, qual_parts, qual_length,
                   written, line_length>>

\* the pull after the final yield: the generator returns
FastaEnd ==
    /\ UNCHANGED extVars
    /\ pc = "final"
    /\ outcome' = "stop"
    /\ pc' = "done"
    /\ UNCHANGED <<data, pos, records, line, current_id, current_seq, id_str,
                   seq_parts, seq_str, qual_parts, qual_length,
                   written, line_length>>

NextFasta == FastaLine \/ FastaResume \/ FastaFinal \/ FastaEnd

SpecFasta == InitFasta /\ [][NextFasta]_vars

(***************************************************************************)
(* Both readers, each over the inputs of its own format                    *)
(***************************************************************************)
MaxBothLines == 4

InitBoth ==
    /\ ExtIdle
    /\ \/ \E ls \in SeqsUpTo(FastqLineKinds, MaxBothLines), finalNl \in BOOLEAN :
            ReaderStart(FileOf(ls, finalNl), "id")
       \/ \E ls \in SeqsUpTo(FastaLineKinds, MaxBothLines), finalNl \in BOOLEAN :
            ReaderStart(FileOf(ls, finalNl), "loop")
    /\ written = <<>>
    /\ line_length = -1

NextBoth == NextFastq \/ NextFasta

SpecBoth == InitBoth /\ [][NextBoth]_vars

(***************************************************************************)
(* generate_fasta / write_wrapped_lines (benchmark/generate_data.py),      *)
(* followed by read_fasta over the file written                            *)
(***************************************************************************)
Bases == {"A", "C"}

\* the ids written (generate_random_id: the prefix of "seq")
GenIds == {<<"s">>}

\* the text written by write_wrapped_lines(f, text, ll)
RECURSIVE write_wrapped_lines(_, _)
write_wrapped_lines(text, ll) ==
    IF ll = -1 THEN text \o <<NL>>
    ELSE IF text = <<>> THEN <<>>
    ELSE SubSeq(text, 1, Min(ll, Len(text))) \o <<NL>>
         \o write_wrapped_lines(SubSeq(text, ll + 1, Len(text)), ll)

InitGen ==
    /\ ExtIdle
    /\ ReaderStart(<<>>, "gen")
    /\ written = <<>>
    /\ line_length \in {-1} \cup (1..MaxWidth)

\* generate_data.py lines 96-104: one record is written
GenerateFasta ==
    /\ UNCHANGED extVars
    /\ pc = "gen"
    /\ Len(written) < MaxGenRecords
    /\ \E seq_id \in GenIds, sequence \in SeqsUpTo(Bases, MaxTextLen) :
          /\ data' = data \o <<">">> \o seq_id \o <<NL>>
                          \o write_wrapped_lines(sequence, line_length)
          /\ written' = Append(written, FastaRecord(seq_id, sequence))
    /\ UNCHANGED <<pos, pc, outcome, records, line, current_id, current_seq,
                   id_str, seq_parts, seq_str, qual_parts, qual_length,
                   line_length>>

\* the file is closed and read_fasta opens it
GenOpen ==
    /\ UNCHANGED extVars
    /\ pc = "gen"
    /\ pc' = "loop"
    /\ UNCHANGED <<data, pos, outcome, records, line, current_id, current_seq,
                   id_str, seq_parts, seq_str, qual_parts, qual_length,
                   written, line_length>>

NextGen == GenerateFasta \/ GenOpen \/ FastaLine \/ FastaResume \/ FastaFinal \/ FastaEnd

SpecGen == InitGen /\ [][NextGen]_vars

(***************************************************************************)
(* The prseq package: FastqReader / read_fastq (src/prseq/fastq.py) and    *)
(* FastaReader / read_fasta (src/prseq/__init__.py) over the native        *)
(* reader.  The native reader is described by the specification: input     *)
(* source (4.1), line cursor (4.2), FASTA engine (4.3), FASTQ engine (4.4),*)
(* record iterator (4.6).  None is <<>>, a value v is <<v>>.               *)
(***************************************************************************)
MaxChunks == 2
MaxExtraPulls == 2

Lines(ls) == FileOf(ls, TRUE)

FastqChunks ==
    { Lines(<< <<"@", "a">>, <<"A", "C">>, <<"+">>, <<"I", "I">> >>),
      Lines(<< <<"@", "b">>, <<"A">>, <<"+", "b">>, <<"J">> >>),
      Lines(<< <<"@", "a">>, <<"A", "C">>, <<"+">>, <<"I">> >>),
      Lines(<< <<"A", "C">> >>) }

FastaChunks ==
    { Lines(<< <<">", "s", " ", "d">>, <<"A", "C">>, <<"G">> >>),
      Lines(<< <<">", "t">> >>),
      Lines(<< <<"A", "C">> >>) }

\* the texts made of at most n chunks
RECURSIVE ChunkTexts(_, _)
ChunkTexts(chunks, n) ==
    IF n = 0 THEN { <<>> }
    ELSE LET shorter == ChunkTexts(chunks, n - 1)
         IN shorter \cup {t \o c : t \in shorter, c \in chunks}

\* ---- 4.1 input source: compression envelopes --------------------------
GzipMagic == <<"0x1f", "0x8b">>

Bzip2Magic == <<"B", "Z", "h">>

RECURSIVE Reverse(_)
Reverse(s) == IF s = <<>> THEN <<>> ELSE Append(Reverse(Tail(s)), Head(s))

RotateLeft(s) == IF s = <<>> THEN <<>> ELSE Append(Tail(s), Head(s))

RotateRight(s) ==
    IF s = <<>> THEN <<>> ELSE <<s[Len(s)]>> \o SubSeq(s, 1, Len(s) - 1)

\* the bytes a source holds for a logical text: the envelope's magic number
\* followed by a payload that is not the text itself
Compress(c, text) ==
    CASE c = "gzip" -> GzipMagic \o Reverse(text)
      [] c = "bzip2" -> Bzip2Magic \o RotateLeft(text)
      [] OTHER -> text

HasPrefix(bytes, magic) ==
    Len(bytes) >= Len(magic) /\ SubSeq(bytes, 1, Len(magic)) = magic

\* the codec resolved from the first bytes of the stream
Sniff_GzipOnly(bytes) == IF HasPrefix(bytes, GzipMagic) THEN "gzip" ELSE "none"

Sniff(bytes) ==
    IF HasPrefix(bytes, GzipMagic) THEN "gzip"
    ELSE IF HasPrefix(bytes, Bzip2Magic) THEN "bzip2"
    ELSE "none"

\* the decoded bytes the line cursor reads
Decode(bytes) ==
    CASE Sniff(bytes) = "gzip" ->
             Reverse(SubSeq(bytes, Len(GzipMagic) + 1, Len(bytes)))
      [] Sniff(bytes) = "bzip2" ->
             RotateRight(SubSeq(bytes, Len(Bzip2Magic) + 1, Len(bytes)))
      [] OTHER -> bytes

\* ---- 4.1 input source: selectors --------------------------------------
ExistingPath == "reads"

MissingPath == "nonexistent"

\* does a missing path fail the open
OpenFails_Never(path) == FALSE

OpenFails(path) == path = <<MissingPath>>

\* the native constructor: [err |-> "", obj |-> <<reader>>] or an error.
\* Every source (the file at ExistingPath, the open file object, standard
\* input) holds the same bytes.
NativeOpen(args, bytes) ==
    IF args.path # <<>> /\ args.file # <<>>
    THEN [err |-> "Cannot specify both path and file", obj |-> <<>>]
    ELSE IF args.file = <<>> /\ args.path \notin {<<>>, <<"-">>}
            /\ OpenFails(args.path)
    THEN [err |-> "IOError", obj |-> <<>>]
    ELSE [err |-> "",
          obj |-> << [buf |-> Decode(bytes),
                      cursor |-> 1,
                      capacity |-> IF args.sequence_size_hint = <<>> THEN 0
                                   ELSE args.sequence_size_hint[1],
                      extra |-> 0] >>]

\* ---- 4.2 line cursor ---------------------------------------------------
NextLine(buf, p) ==
    [text |-> rstrip(readline(buf, p)), next |-> p + Len(readline(buf, p))]

\* ---- 4.3 FASTA engine --------------------------------------------------
\* the sequence lines from p up to the next header or the end of input
RECURSIVE FastaSequenceFrom(_, _)
FastaSequenceFrom(buf, p) ==
    IF p > Len(buf) \/ buf[p] = ">"
    THEN [sequence |-> <<>>, next |-> p]
    ELSE LET l == NextLine(buf, p)
             rest == FastaSequenceFrom(buf, l.next)
         IN [sequence |-> l.text \o rest.sequence, next |-> rest.next]

NativeFastaNext(buf, p) ==
    IF p > Len(buf) THEN [kind |-> "stop", next |-> p]
    ELSE IF buf[p] # ">" THEN [kind |-> "error", next |-> p]
    ELSE LET h == NextLine(buf, p)
             body == FastaSequenceFrom(buf, h.next)
         IN [kind |-> "record", next |-> body.next,
             header |-> DropFirst(h.text), sequence |-> body.sequence]

\* ---- 4.4 FASTQ engine --------------------------------------------------
\* Accumulate-Sequence: lines up to the first one beginning with '+'
RECURSIVE FastqSequenceFrom(_, _)
FastqSequenceFrom(buf, p) ==
    IF p > Len(buf) THEN [ok |-> FALSE, sequence |-> <<>>, next |-> p]
    ELSE LET l == NextLine(buf, p) IN
         IF buf[p] = "+" THEN [ok |-> TRUE, sequence |-> <<>>, next |-> l.next]
         ELSE LET rest == FastqSequenceFrom(buf, l.next)
              IN [ok |-> rest.ok, sequence |-> l.text \o rest.sequence,
                  next |-> rest.next]

\* Accumulate-Quality: lines until exactly need characters are read
RECURSIVE FastqQualityFrom(_, _, _)
FastqQualityFrom(buf, p, need) ==
    IF need = 0 THEN [ok |-> TRUE, quality |-> <<>>, next |-> p]
    ELSE IF p > Len(buf) THEN [ok |-> FALSE, quality |-> <<>>, next |-> p]
    ELSE LET l == NextLine(buf, p) IN
         IF Len(l.text) > need
         THEN [ok |-> FALSE, quality |-> <<>>, next |-> p]
         ELSE LET rest == FastqQualityFrom(buf, l.next, need - Len(l.text))
              IN [ok |-> rest.ok, quality |-> l.text \o rest.quality,
                  next |-> rest.next]

NativeFastqNext(buf, p) ==
    IF p > Len(buf) THEN [kind |-> "stop", next |-> p]
    ELSE IF buf[p] # "@" THEN [kind |-> "error", next |-> p]
    ELSE LET h == NextLine(buf, p)
             sq == FastqSequenceFrom(buf, h.next)
             ql == FastqQualityFrom(buf, sq.next, Len(sq.sequence))
         IN IF ~sq.ok \/ ~ql.ok THEN [kind |-> "error", next |-> p]
            ELSE [kind |-> "record", next |-> ql.next, id |-> DropFirst(h.text),
                  sequence |-> sq.sequence, quality |-> ql.quality]

\* ---- 4.6 record iterator: one pull on the native reader ---------------
\* the result and the reader after the pull; the sequence buffer, pre-sized
\* from the hint, grows to hold the record
Pulled(obj, r) ==
    [result |-> r,
     obj |-> [obj EXCEPT
                !.cursor = r.next,
                !.capacity = IF r.kind = "record"
                                /\ Len(r.sequence) > obj.capacity
                             THEN Len(r.sequence) ELSE obj.capacity]]

NativePull(fmt, obj) ==
    Pulled(obj, IF fmt = "fastq" THEN NativeFastqNext(obj.buf, obj.cursor)
                ELSE NativeFastaNext(obj.buf, obj.cursor))

\* ---- fastq.py ----------------------------------------------------------
\* FastqReader.__init__, line 58: the arguments handed to the native reader
FastqReader_init_DropsFile(path, file, sequence_size_hint) ==
    [path |-> path, file |-> <<>>, sequence_size_hint |-> sequence_size_hint]

FastqReader_init(path, file, sequence_size_hint) ==
    [path |-> path, file |-> file, sequence_size_hint |-> sequence_size_hint]

\* FastqReader.from_file, line 63: the hint is passed by keyword; passed
\* positionally it would bind to  file
from_file_Positional(path, sequence_size_hint) ==
    FastqReader_init(<<path>>, sequence_size_hint, <<>>)

from_file(path, sequence_size_hint) ==
    FastqReader_init(<<path>>, <<>>, sequence_size_hint)

\* FastqReader.from_file_object, line 68
from_file_object(file, sequence_size_hint) ==
    FastqReader_init(<<>>, <<file>>, sequence_size_hint)

\* FastqReader.from_stdin, line 73
from_stdin(sequence_size_hint) ==
    FastqReader_init(<<>>, <<>>, sequence_size_hint)

\* FastqReader.__next__, line 81
FastqReader_next_record(rust_record) ==
    FastqRecord(rust_record.id, rust_record.sequence, rust_record.quality)

\* FastqReader.__next__, lines 82-83: StopIteration is re-raised and the
\* native reader is left as it is
on_StopIteration_Rewind(obj) == [obj EXCEPT !.cursor = 1]

on_StopIteration(obj) == obj

\* ---- __init__.py -------------------------------------------------------
\* the package's FastaRecord(header, sequence) named tuple, lines 8-16
HeaderRecord(header, sequence) == [header |-> header, sequence |-> sequence]

\* FastaReader.__init__, line 42
FastaReader_init(path, sequence_size_hint) ==
    [path |-> <<path>>, file |-> <<>>, sequence_size_hint |-> sequence_size_hint]

\* FastaReader.__next__, line 59
FastaReader_next_record(rust_record) ==
    HeaderRecord(rust_record.header, rust_record.sequence)

\* ---- the calls made ----------------------------------------------------
Hints == { <<>>, <<1>> }

Paths == { <<>>, <<"-">>, <<ExistingPath>>, <<MissingPath>> }

FastqCalls ==
    {Call("FastqReader", pa, fi, h) : pa \in Paths, fi \in {<<>>, <<"f">>}, h \in Hints}
    \cup {Call("FastqReader.from_file", pa, <<>>, h) :
             pa \in {<<ExistingPath>>, <<MissingPath>>}, h \in Hints}
    \cup {Call("FastqReader.from_file_object", <<>>, <<"f">>, h) : h \in Hints}
    \cup {Call("FastqReader.from_stdin", <<>>, <<>>, h) : h \in Hints}

FastaCalls ==
    {Call("FastaReader", pa, <<>>, h) :
        pa \in {<<ExistingPath>>, <<MissingPath>>}, h \in Hints}

Fmt(c) == IF c.fn = "FastaReader" THEN "fasta" ELSE "fastq"

\* the native constructor arguments the call leads to
ArgsOf(c) ==
    CASE c.fn = "FastqReader" -> FastqReader_init(c.path, c.file, c.hint)
      [] c.fn = "FastqReader.from_file" -> from_file(c.path[1], c.hint)
      [] c.fn = "FastqReader.from_file_object" -> from_file_object(c.file[1], c.hint)
      [] c.fn = "FastqReader.from_stdin" -> from_stdin(c.hint)
      [] OTHER -> FastaReader_init(c.path[1], c.hint)

\* __next__ of either class on the native result r
NextRecord(fmt, r) ==
    IF fmt = "fastq" THEN FastqReader_next_record(r)
    ELSE FastaReader_next_record(r)

\* ---- the read-all functions --------------------------------------------
\* list(reader): the records of successive __next__ calls up to
\* StopIteration, or the error that ends them
\* rec followed by the records of rest, unless rest ended in an error
Cons(rec, rest) ==
    [err |-> rest.err,
     list |-> IF rest.err # "" THEN <<>> ELSE <<rec>> \o rest.list]

RECURSIVE ListReader(_, _)
RECURSIVE ListAfterPull(_, _)
ListAfterPull(fmt, pl) ==
    CASE pl.result.kind = "stop" -> [err |-> "", list |-> <<>>]
      [] pl.result.kind = "error" -> [err |-> "parse_error", list |-> <<>>]
      [] OTHER -> Cons(NextRecord(fmt, pl.result), ListReader(fmt, pl.obj))

ListReader(fmt, obj) == ListAfterPull(fmt, NativePull(fmt, obj))

\* the list of an opened reader, or the constructor's error
ListOpened(fmt, o) ==
    IF o.err # "" THEN [err |-> o.err, list |-> <<>>]
    ELSE ListReader(fmt, o.obj[1])

\* list(cls(...)) for the constructor arguments args
ListOf(fmt, args, bytes) == ListOpened(fmt, NativeOpen(args, bytes))

\* the native read_fastq(path, hint): all native records of the file
RECURSIVE NativeListFrom(_, _)
RECURSIVE NativeListAfterPull(_, _)
NativeListAfterPull(fmt, pl) ==
    CASE pl.result.kind = "stop" -> [err |-> "", list |-> <<>>]
      [] pl.result.kind = "error" -> [err |-> "parse_error", list |-> <<>>]
      [] OTHER -> Cons(pl.result, NativeListFrom(fmt, pl.obj))

NativeListFrom(fmt, obj) == NativeListAfterPull(fmt, NativePull(fmt, obj))

NativeListOpened(fmt, o) ==
    IF o.err # "" THEN [err |-> o.err, list |-> <<>>]
    ELSE NativeListFrom(fmt, o.obj[1])

NativeReadAll(fmt, path, hint, bytes) ==
    NativeListOpened(fmt, NativeOpen([path |-> <<path>>, file |-> <<>>,
                                      sequence_size_hint |-> hint], bytes))

\* read_fastq, line 95: the conversion of the native list
read_fastq_record_Swapped(r) == FastqRecord(r.id, r.quality, r.sequence)

read_fastq_record(r) == FastqRecord(r.id, r.sequence, r.quality)

\* read_fastq, lines 86-95
read_fastq_convert(rust_records) ==
    [err |-> rust_records.err,
     list |-> [i \in 1..Len(rust_records.list) |->
                  read_fastq_record(rust_records.list[i])]]

read_fastq(path, sequence_size_hint, bytes) ==
    IF path = <<>> \/ path = <<"-">>
    THEN ListOf("fastq", from_stdin(sequence_size_hint), bytes)
    ELSE read_fastq_convert(
             NativeReadAll("fastq", path[1], sequence_size_hint, bytes))

\* read_fasta, line 82
read_fasta(path, sequence_size_hint, bytes) ==
    ListOf("fasta", FastaReader_init(path, sequence_size_hint), bytes)

\* ---- the reader as a state machine -------------------------------------
InitReaderFor(calls, chunks) ==
    /\ \E c \in calls, t \in ChunkTexts(chunks, MaxChunks),
          k \in {"none", "gzip", "bzip2"} :
          /\ call = c
          /\ content = t
          /\ codec = k
          /\ ReaderStart(Compress(k, t), "call")
    /\ written = <<>>
    /\ line_length = -1
    /\ alt = <<>>
    /\ first = <<>>
    /\ native = <<>>
    /\ listed = <<>>
    /\ zc = <<>>
    /\ st = <<>>
    /\ cli = <<>>

InitReader ==
    \/ InitReaderFor(FastqCalls, FastqChunks)
    \/ InitReaderFor(FastaCalls, FastaChunks)

pyVars == <<line, current_id, current_seq, id_str, seq_parts, seq_str,
            qual_parts, qual_length, written, line_length>>

\* the constructor call
Construct ==
    /\ pc = "call"
    /\ LET o == NativeOpen(ArgsOf(call), data) IN
       IF o.err # ""
       THEN /\ pc' = "failed"
            /\ outcome' = o.err
            /\ UNCHANGED native
       ELSE /\ pc' = "ready"
            /\ native' = o.obj
            /\ UNCHANGED outcome
    /\ UNCHANGED <<data, pos, records, alt, first, call, content, codec,
                   listed, zc, st>>
    /\ UNCHANGED pyVars
    /\ UNCHANGED cli

\* __next__, lines 78-83: what the call raises for the native result; only
\* StopIteration is caught, and it is raised again
raised_ErrorsEndIteration(result) ==
    IF result.kind = "record" THEN "" ELSE "StopIteration"

raised(result) ==
    CASE result.kind = "record" -> ""
      [] result.kind = "stop" -> "StopIteration"
      [] OTHER -> "parse_error"

\* one pull: __next__ of the reader.  Pulls after exhaustion are followed
\* MaxExtraPulls times.
ReaderNext ==
    /\ pc = "ready"
    /\ native[1].extra <= MaxExtraPulls
    /\ LET pl == NativePull(Fmt(call), native[1]) IN
       CASE raised(pl.result) = "" ->
              /\ records' = Append(records, NextRecord(Fmt(call), pl.result))
              /\ outcome' = "record"
              /\ native' = <<pl.obj>>
              /\ UNCHANGED pc
         [] raised(pl.result) = "StopIteration" ->
              /\ outcome' = "stop"
              /\ native' = << [on_StopIteration(pl.obj) EXCEPT
                                  !.extra = native[1].extra + 1] >>
              /\ UNCHANGED <<records, pc>>
         [] OTHER ->
              /\ outcome' = "parse_error"
              /\ pc' = "failed"
              /\ UNCHANGED <<records, native>>
    /\ UNCHANGED <<data, pos, alt, first, call, content, codec, listed, zc, st>>
    /\ UNCHANGED pyVars
    /\ UNCHANGED cli

\* read_fastq / read_fasta called on the same source
ReadAll ==
    /\ pc # "call"
    /\ listed = <<>>
    /\ call.file = <<>>
    /\ listed' = IF Fmt(call) = "fastq"
                 THEN << read_fastq(call.path, call.hint, data) >>
                 ELSE << read_fasta(call.path[1], call.hint, data) >>
    /\ UNCHANGED <<data, pos, pc, outcome, records, alt, first, call, content,
                   codec, native, zc, st>>
    /\ UNCHANGED pyVars
    /\ UNCHANGED cli

NextReader == Construct \/ ReaderNext \/ ReadAll

SpecReader == InitReader /\ [][NextReader]_vars

(***************************************************************************)
(* The three FASTA readers of the package over one file: FastaReader       *)
(* (copying), ZeroCopyFastaReader (whole file), StreamingFastaReader       *)
(***************************************************************************)
MaxStreamLines == 5
MaxBuffer == 2

\* the smallest and the largest initial size of the working buffer
BufferSizes == {1, MaxBuffer}

StreamLineKinds ==
    { <<">", "s", " ", "d">>, <<">", "t">>, <<"A", "C">>, <<"G">>, <<>> }

\* a bytes object holds bytes, a str holds characters
bytes_of(s) == [i \in 1..Len(s) |-> <<"byte", s[i]>>]

decode_utf8(b) == [i \in 1..Len(b) |-> b[i][2]]

\* ---- 4.2 buffered line cursor, 4.5 whole-file zero-copy ----------------
\* the precomputed length of a record: the lengths of the first  count
\* entries of its list of lines, added up
RECURSIVE total_length_AllEntries(_, _)
total_length_AllEntries(lines, count) ==
    IF lines = <<>> THEN 0
    ELSE Len(lines[1]) + total_length_AllEntries(Tail(lines), count)

RECURSIVE total_length(_, _)
total_length(lines, count) ==
    IF count = 0 THEN 0
    ELSE Len(lines[count]) + total_length(lines, count - 1)

\* a span is the pair of the first and the last index of a field in the
\* loaded buffer
PrependLine(t, span, rest) ==
    [lines |-> <<t>> \o rest.lines, spans |-> <<span>> \o rest.spans,
     next |-> rest.next]

\* the sequence lines from p up to the next header or the end of the buffer
RECURSIVE ZeroCopyLinesFrom(_, _)
RECURSIVE ZeroCopyLinesAfter(_, _, _)
ZeroCopyLinesAfter(buf, p, l) ==
    PrependLine(bytes_of(l.text), <<p, p + Len(l.text) - 1>>,
                ZeroCopyLinesFrom(buf, l.next))

ZeroCopyLinesFrom(buf, p) ==
    IF p > Len(buf) \/ buf[p] = ">"
    THEN [lines |-> <<>>, spans |-> <<>>, next |-> p]
    ELSE ZeroCopyLinesAfter(buf, p, NextLine(buf, p))

ZeroCopyRecord(header_bytes, header_span, body) ==
    [kind |-> "record", next |-> body.next, header_bytes |-> header_bytes,
     sequence_lines |-> body.lines,
     total_length |-> total_length(body.lines, Len(body.lines)),
     view |-> [header |-> header_span, lines |-> body.spans]]

ZeroCopyAfterHeader(buf, p, h) ==
    ZeroCopyRecord(bytes_of(DropFirst(h.text)), <<p + 1, p + Len(h.text) - 1>>,
                   ZeroCopyLinesFrom(buf, h.next))

ZeroCopyFastaNext(buf, p) ==
    IF p > Len(buf) THEN [kind |-> "stop", next |-> p]
    ELSE IF buf[p] # ">" THEN [kind |-> "error", next |-> p]
    ELSE ZeroCopyAfterHeader(buf, p, NextLine(buf, p))

\* the loaded buffer after a pull that has read up to  next:  it is kept
\* whole for the lifetime of the reader
keep_buffer_FreesConsumed(buf, next) ==
    [i \in 1..Len(buf) |-> IF i < next THEN "" ELSE buf[i]]

keep_buffer(buf, next) == buf

\* ---- 4.2 streaming line cursor ----------------------------------------
\* a cursor c holds the source  src,  the index  at  of its first unread
\* byte, the unconsumed bytes  buf  of the working buffer and its size  cap
HasNewline(b) == \E i \in 1..Len(b) : b[i] = NL

NewlineAt(b) == CHOOSE i \in 1..Len(b) : b[i] = NL /\ \A j \in 1..(i - 1) : b[j] # NL

TakeFromSource(c, k) ==
    [c EXCEPT !.buf = c.buf \o SubSeq(c.src, c.at, c.at + k - 1),
              !.at = c.at + k]

\* fill the free part of the working buffer from the source
Refill(c) == TakeFromSource(c, Min(c.cap - Len(c.buf), Len(c.src) - c.at + 1))

\* the working buffer is full and holds no line end
on_full_buffer_Flush(c) == [c EXCEPT !.buf = c.buf \o <<NL>>]

on_full_buffer(c) == [c EXCEPT !.cap = c.cap + c.cap]

\* refill and grow until the buffer holds a line end or the source is read
RECURSIVE FillLine(_)
FillLine(c) ==
    IF HasNewline(c.buf) \/ c.at > Len(c.src) THEN c
    ELSE IF Len(c.buf) >= c.cap THEN FillLine(on_full_buffer(c))
    ELSE FillLine(Refill(c))

\* the next line of a filled cursor
TakeLine(c) ==
    IF HasNewline(c.buf)
    THEN [eof |-> FALSE, text |-> rstrip(SubSeq(c.buf, 1, NewlineAt(c.buf))),
          cursor |-> [c EXCEPT !.buf = SubSeq(c.buf, NewlineAt(c.buf) + 1,
                                               Len(c.buf))]]
    ELSE IF c.buf = <<>> THEN [eof |-> TRUE, text |-> <<>>, cursor |-> c]
    ELSE [eof |-> FALSE, text |-> rstrip(c.buf),
          cursor |-> [c EXCEPT !.buf = <<>>]]

StreamLine(c) == TakeLine(FillLine(c))

\* ---- 4.5 streaming reader: reused sequence_lines buffer ----------------
\* the lines of the record overwrite the first entries of the reused list;
\* entries beyond them are left as they were
store_lines_Append(buffer, ls) == buffer \o ls

store_lines(buffer, ls) ==
    ls \o SubSeq(buffer, Len(ls) + 1, Len(buffer))

\* the sequence lines up to the next header line, which is kept for the
\* next pull, or up to the end of the source;  l  is the line just read
RECURSIVE StreamSequence(_, _)
StreamSequence(acc, l) ==
    IF l.eof THEN [lines |-> acc, pending |-> <<>>, cursor |-> l.cursor]
    ELSE IF startswith(l.text, ">")
    THEN [lines |-> acc, pending |-> <<l.text>>, cursor |-> l.cursor]
    ELSE StreamSequence(Append(acc, l.text), StreamLine(l.cursor))

StreamRecord(s, header, body) ==
    [kind |-> "record", header |-> header,
     sequence_lines |-> store_lines(s.lines, body.lines),
     valid_count |-> Len(body.lines),
     total_length |-> total_length(store_lines(s.lines, body.lines),
                                   Len(body.lines)),
     reader |-> [s EXCEPT !.cursor = body.cursor, !.pending = body.pending,
                          !.lines = store_lines(s.lines, body.lines)]]

StreamAfterHeader(s, h) ==
    IF h.eof THEN [kind |-> "stop", reader |-> [s EXCEPT !.cursor = h.cursor]]
    ELSE IF ~startswith(h.text, ">") THEN [kind |-> "error", reader |-> s]
    ELSE StreamRecord(s, DropFirst(h.text),
                      StreamSequence(<<>>, StreamLine(h.cursor)))

StreamHeader(s) ==
    IF s.pending # <<>>
    THEN [eof |-> FALSE, text |-> s.pending[1], cursor |-> s.cursor]
    ELSE StreamLine(s.cursor)

StreamingFastaNext(s) == StreamAfterHeader(s, StreamHeader(s))

\* the streaming reader opened on src with a working buffer of cap bytes
StreamingOpen(src, cap) ==
    [cursor |-> [src |-> src, at |-> 1, buf |-> <<>>, cap |-> cap],
     buffer_size |-> cap, pending |-> <<>>, lines |-> <<>>]

\* ---- __init__.py: the tuples handed to the caller ----------------------
\* ZeroCopyFastaReader.__next__, lines 124-127
ZeroCopyFastaReader_next(result) ==
    [header_bytes |-> result.header_bytes,
     sequence_lines |-> result.sequence_lines,
     total_length |-> result.total_length]

\* StreamingFastaReader.__next__, lines 202-205
StreamingFastaReader_next(result) ==
    [header |-> result.header, sequence_lines |-> result.sequence_lines,
     valid_count |-> result.valid_count, total_length |-> result.total_length]

\* ---- the three readers, one after the other, over the same file --------
InitStream ==
    /\ \E ls \in SeqsUpTo(StreamLineKinds, MaxStreamLines), finalNl \in BOOLEAN,
          cap \in BufferSizes :
          /\ ReaderStart(FileOf(ls, finalNl), "copying")
          /\ content = FileOf(ls, finalNl)
          /\ native = NativeOpen(FastaReader_init(ExistingPath, <<>>),
                                 FileOf(ls, finalNl)).obj
          /\ zc = [buf |-> FileOf(ls, finalNl), cursor |-> 1, views |-> <<>>,
                   out |-> <<>>, status |-> "running"]
          /\ st = [reader |-> StreamingOpen(FileOf(ls, finalNl), cap),
                   out |-> <<>>, status |-> "running"]
    /\ written = <<>>
    /\ line_length = -1
    /\ alt = <<>>
    /\ first = <<>>
    /\ call = Call("FastaReader", <<ExistingPath>>, <<>>, <<>>)
    /\ codec = "none"
    /\ listed = <<>>
    /\ cli = <<>>

CopyingPulled(pl) ==
    CASE pl.result.kind = "record" ->
           /\ records' = Append(records, FastaReader_next_record(pl.result))
           /\ outcome' = "record"
           /\ native' = <<pl.obj>>
           /\ UNCHANGED pc
      [] pl.result.kind = "stop" ->
           /\ outcome' = "stop"
           /\ pc' = "zero_copy"
           /\ UNCHANGED <<records, native>>
      [] OTHER ->
           /\ outcome' = "parse_error"
           /\ pc' = "zero_copy"
           /\ UNCHANGED <<records, native>>

\* one pull on the FastaReader
CopyingNext ==
    /\ pc = "copying"
    /\ CopyingPulled(NativePull("fasta", native[1]))
    /\ UNCHANGED <<data, pos, alt, first, call, content, codec, listed, zc, st>>
    /\ UNCHANGED pyVars
    /\ UNCHANGED cli

ZeroCopyPulled(r) ==
    CASE r.kind = "record" ->
           /\ zc' = [zc EXCEPT !.buf = keep_buffer(@, r.next),
                               !.cursor = r.next,
                               !.views = Append(@, r.view),
                               !.out = Append(@, ZeroCopyFastaReader_next(r))]
           /\ UNCHANGED pc
      [] r.kind = "stop" ->
           /\ zc' = [zc EXCEPT !.status = "stop"]
           /\ pc' = "streaming"
      [] OTHER ->
           /\ zc' = [zc EXCEPT !.status = "parse_error"]
           /\ pc' = "streaming"

\* one pull on the ZeroCopyFastaReader
ZeroCopyNext ==
    /\ pc = "zero_copy"
    /\ ZeroCopyPulled(ZeroCopyFastaNext(zc.buf, zc.cursor))
    /\ UNCHANGED <<data, pos, outcome, records, alt, first, call, content,
                   codec, native, listed, st>>
    /\ UNCHANGED pyVars
    /\ UNCHANGED cli

StreamingPulled(r) ==
    CASE r.kind = "record" ->
           /\ st' = [st EXCEPT !.reader = r.reader,
                               !.out = Append(@, StreamingFastaReader_next(r))]
           /\ UNCHANGED pc
      [] r.kind = "stop" ->
           /\ st' = [st EXCEPT !.reader = r.reader, !.status = "stop"]
           /\ pc' = "done"
      [] OTHER ->
           /\ st' = [st EXCEPT !.status = "parse_error"]
           /\ pc' = "done"

\* one pull on the StreamingFastaReader
StreamingNext ==
    /\ pc = "streaming"
    /\ StreamingPulled(StreamingFastaNext(st.reader))
    /\ UNCHANGED <<data, pos, outcome, records, alt, first, call, content,
                   codec, native, listed, zc>>
    /\ UNCHANGED pyVars
    /\ UNCHANGED cli

NextStream == CopyingNext \/ ZeroCopyNext \/ StreamingNext

SpecStream == InitStream /\ [][NextStream]_vars

(***************************************************************************)
(* fasta-filter (prseq/cli.py, filter_cmd)                                 *)
(***************************************************************************)
Digits == <<"0", "1", "2", "3", "4", "5", "6", "7", "8", "9">>

is_digit(c) == \E i \in 1..Len(Digits) : Digits[i] = c

digit_value(c) == (CHOOSE i \in 1..Len(Digits) : Digits[i] = c) - 1

\* int(text) raises ValueError
ValueError(text) ==
    \/ text = <<>>
    \/ text = <<"-">>
    \/ \E i \in 1..Len(text) : ~is_digit(text[i]) /\ ~(i = 1 /\ text[i] = "-")

\* int(text) for a text of decimal digits with an optional sign
RECURSIVE int(_)
int(text) ==
    IF text = <<>> THEN 0
    ELSE IF Head(text) = "-" THEN 0 - int(Tail(text))
    ELSE int(SubSeq(text, 1, Len(text) - 1)) * Len(Digits)
             + digit_value(text[Len(text)])

\* line 120: len(record.sequence) >= min_length
long_enough_Strict(record, min_length) == Len(record.sequence) > min_length

long_enough(record, min_length) == Len(record.sequence) >= min_length

\* the command lines tried: sys.argv
MinLengthArgs == { <<"0">>, <<"2">>, <<"3">>, <<"4">>, <<"1", "0">>, <<"-", "1">>, <<"x">> }

FilterArgv ==
    { <<"fasta-filter", p, m>> :
          p \in {ExistingPath, MissingPath}, m \in MinLengthArgs }
    \cup { <<"fasta-filter", ExistingPath>>,
           <<"fasta-filter", ExistingPath, <<"2">>, <<"2">> >> }

InitFilter ==
    /\ \E t \in ChunkTexts(FastaChunks, MaxChunks), a \in FilterArgv :
          /\ ReaderStart(t, "main")
          /\ content = t
          /\ cli = [argv |-> a, min_length |-> <<>>, kept |-> 0, filtered |-> 0,
                    stdout |-> <<>>, stderr |-> <<>>, exit |-> <<>>]
    /\ written = <<>>
    /\ line_length = -1
    /\ alt = <<>>
    /\ first = <<>>
    /\ call = NoCall
    /\ codec = "none"
    /\ native = <<>>
    /\ listed = <<>>
    /\ zc = <<>>
    /\ st = <<>>

\* print(..., file=sys.stderr); sys.exit(1)
Fail(message) ==
    /\ cli' = [cli EXCEPT !.stderr = Append(@, message), !.exit = <<1>>]
    /\ pc' = "exit"

FilterOpened(o) ==
    IF o.err # ""
    THEN /\ Fail(<<"Error processing FASTA file", o.err>>)
         /\ UNCHANGED native
    ELSE /\ native' = o.obj
         /\ cli' = [cli EXCEPT !.min_length = <<int(cli.argv[3])>>,
                               !.kept = 0, !.filtered = 0]
         /\ pc' = "loop"

\* lines 97-117: the arguments are checked and the reader is made
FilterStart ==
    /\ pc = "main"
    /\ IF Len(cli.argv) # 3
       THEN /\ Fail(<<"Usage: fasta-filter <file.fasta> <min_length>">>)
            /\ UNCHANGED native
       ELSE IF ValueError(cli.argv[3])
       THEN /\ Fail(<<"Error: min_length must be an integer">>)
            /\ UNCHANGED native
       ELSE IF cli.argv[2] # ExistingPath
       THEN /\ Fail(<<"Error: File not found", cli.argv[2]>>)
            /\ UNCHANGED native
       ELSE FilterOpened(NativeOpen(FastaReader_init(cli.argv[2], <<>>), data))
    /\ UNCHANGED <<data, pos, outcome, records, alt, first, call, content,
                   codec, listed, zc, st>>
    /\ UNCHANGED pyVars

\* lines 120-125: the body of the loop for one record
FilterBody(record) ==
    IF long_enough(record, cli.min_length[1])
    THEN cli' = [cli EXCEPT
                   !.stdout = @ \o << <<">">> \o record.header, record.sequence >>,
                   !.kept = @ + 1]
    ELSE cli' = [cli EXCEPT !.filtered = @ + 1]

FilterPulled(pl) ==
    CASE pl.result.kind = "record" ->
           /\ records' = Append(records, FastaReader_next_record(pl.result))
           /\ FilterBody(FastaReader_next_record(pl.result))
           /\ native' = <<pl.obj>>
           /\ outcome' = "record"
           /\ UNCHANGED pc
      [] pl.result.kind = "stop" ->
           /\ cli' = [cli EXCEPT
                        !.stderr = Append(@, <<"Kept", cli.kept, cli.filtered>>),
                        !.exit = <<0>>]
           /\ outcome' = "stop"
           /\ pc' = "exit"
           /\ UNCHANGED <<records, native>>
      [] OTHER ->
           /\ Fail(<<"Error processing FASTA file", "parse_error">>)
           /\ outcome' = "parse_error"
           /\ UNCHANGED <<records, native>>

\* lines 119-131: one iteration of  for record in reader,  the summary
\* after the loop, or the handler of an exception
FilterNext ==
    /\ pc = "loop"
    /\ FilterPulled(NativePull("fasta", native[1]))
    /\ UNCHANGED <<data, pos, alt, first, call, content, codec, listed, zc, st>>
    /\ UNCHANGED pyVars

NextFilter == FilterStart \/ FilterNext

SpecFilter == InitFilter /\ [][NextFilter]_vars

(***************************************************************************)
(* The file seen as lines, computed from the characters alone              *)
(***************************************************************************)
IsLineStart(d, i) == i = 1 \/ d[i - 1] = NL

LineStarts(d) == {i \in 1..Len(d) : IsLineStart(d, i)}

\* start indices of the lines whose first character is c
MarkedLines(d, c) == {i \in LineStarts(d) : d[i] = c}

\* the k-th smallest element of the set of indices S
KthOf(S, k) == CHOOSE i \in S : Cardinality({j \in S : j < i}) = k - 1

\* the line starting at index i, without its terminator
LineText(d, i) ==
    LET stops == {j \in i..Len(d) : d[j] = NL} IN
    IF i > Len(d) THEN <<>>
    ELSE IF stops = {} THEN SubSeq(d, i, Len(d))
    ELSE SubSeq(d, i, (CHOOSE j \in stops : \A m \in stops : j <= m) - 1)

\* the lines starting at the indices of S, concatenated in file order
RECURSIVE ConcatLines(_, _)
ConcatLines(d, S) ==
    IF S = {} THEN <<>>
    ELSE LET m == CHOOSE i \in S : \A j \in S : i <= j
         IN LineText(d, m) \o ConcatLines(d, S \ {m})

Last(s) == s[Len(s)]

(***************************************************************************)
(* Claims about read_fastq, under SpecFastq                                *)
(***************************************************************************)

\* C1: every record returned by a pull of the FASTQ reader has a quality
\* exactly as long as its sequence.
C1_QualityLengthEqualsSequenceLength ==
    \A k \in 1..Len(records) :
        Len(records[k].quality) = Len(records[k].sequence)

\* C2: when end-of-input is read while the accumulated quality is still
\* shorter than the sequence, the pull ends in a malformed-record error.
C2_TruncatedQualityIsError ==
    [][(pc = "qual" /\ qual_length < Len(seq_str) /\ pos > Len(data))
          => outcome' = "error"]_vars

\* C6: for a record with a non-empty sequence, the quality lines consumed are
\* the lines after the separator up to the first point where their running
\* length reaches len(sequence), the quality returned is their concatenation,
\* and the line after them is read as the header of the next record.
C6_QualityLinesOf(s) == {q \in LineStarts(data) : s < q /\ q < pos}

C6_AtYield ==
    (pc = "id" /\ outcome = "record" /\ Last(records).sequence # <<>>)
    => /\ pos = Len(data) + 1 \/ pos \in LineStarts(data)
       /\ \E s \in MarkedLines(data, "+") :
            LET Q == C6_QualityLinesOf(s)
                lastQ == CHOOSE q \in Q : \A r \in Q : r <= q
            IN /\ Q # {}
               /\ Last(records).quality = ConcatLines(data, Q)
               /\ Len(ConcatLines(data, Q \ {lastQ}))
                     < Len(Last(records).sequence)

C6_NextLineIsHeader ==
    (pc = "id" /\ outcome = "record" /\ pos <= Len(data))
    => /\ pc' = "seq"
       /\ id_str' = DropFirst(LineText(data, pos))
       /\ pos' = pos + Len(LineText(data, pos))
                     + (IF \E j \in pos..Len(data) : data[j] = NL THEN 1 ELSE 0)

C6_WrappedQualityConsumedToLength ==
    [](C6_AtYield) /\ [][C6_NextLineIsHeader]_vars

\* a record whose quality was wrapped over two lines has been returned and
\* the following line has been taken as the next header
C6_Witness ==
    /\ pc = "seq"
    /\ Len(records) = 1
    /\ records[1].sequence = <<"A", "C">>
    /\ records[1].quality = <<"I", "I">>
    /\ Len(qual_parts) = 2
    /\ id_str = <<"a">>

\* C7: a quality line that would make the accumulated quality longer than the
\* sequence ends the pull in a malformed-record error.
C7_QualityOvershootIsError ==
    [][(/\ pc = "qual"
        /\ qual_length < Len(seq_str)
        /\ qual_length + Len(LineText(data, pos)) > Len(seq_str))
          => outcome' = "error"]_vars

\* C9: at a record boundary, a line that does not begin with '@' ends the
\* pull in a malformed-record error.
C9_MissingAtMarkerIsError ==
    [][(pc = "id" /\ pos <= Len(data) /\ data[pos] # "@")
          => outcome' = "error"]_vars

\* C10: end-of-input met while the sequence lines are read, before any line
\* beginning with '+', ends the pull in a malformed-record error.
C10_MissingSeparatorIsError ==
    [][(pc = "seq" /\ pos > Len(data)) => outcome' = "error"]_vars

\* the phases of read_fastq: "id" is Expect-Header, "seq" is
\* Accumulate-Sequence, which ends by consuming the separator line
\* (Expect-Separator), "qual" is Accumulate-Quality and "done" is End
C24_PhaseStep ==
    /\ pc = "id" => pc' \in {"seq", "done"}
    /\ pc = "seq" => pc' \in {"seq", "qual"}
    /\ pc = "qual" => pc' \in {"qual", "id"}
    /\ (pc = "seq" /\ pos <= Len(data) /\ data[pos] = "+")
          => pc' = "qual" /\ seq_parts' = seq_parts
    /\ (pc = "seq" /\ pos <= Len(data) /\ data[pos] # "+")
          => pc' = "seq" /\ seq_parts' = Append(seq_parts, LineText(data, pos))
    /\ (pc = "seq" /\ pc' = "qual") => (pos <= Len(data) /\ data[pos] = "+")
    /\ records' # records => (pc = "qual" /\ pc' = "id")

\* C24: read_fastq moves through its phases only in the order
\* Expect-Header, Accumulate-Sequence, Expect-Separator, Accumulate-Quality
\* and then back to Expect-Header or to End: Accumulate-Quality is entered
\* only over a line beginning with '+', the first such line ends
\* Accumulate-Sequence, every other line is appended to the sequence, and a
\* record is emitted only on leaving Accumulate-Quality.
C24_PhasesInOrder == [][C24_PhaseStep]_vars

(***************************************************************************)
(* Claims about read_fasta, under SpecFasta                                *)
(***************************************************************************)

\* C3: for an input whose first line is a header, reading to exhaustion
\* returns as many records as there are lines beginning with '>'.
C3_RecordCountEqualsHeaderCount ==
    (pc = "done" /\ data # <<>> /\ data[1] = ">")
    => Len(records) = Cardinality(MarkedLines(data, ">"))

\* exhausted, two records, the last header followed by no sequence line
C3_Witness ==
    /\ pc = "done"
    /\ data # <<>> /\ data[1] = ">"
    /\ Len(records) >= 2
    /\ Last(records).sequence = <<>>
    /\ current_seq = <<>>

\* C5: the id of the k-th record is the k-th header line with exactly its
\* first character (the '>') removed, spaces and all.
C5_IdIsHeaderLineWithoutMarker ==
    \A k \in 1..Len(records) :
        LET h == KthOf(MarkedLines(data, ">"), k) IN
        /\ Len(records[k].id) = Len(LineText(data, h)) - 1
        /\ \A i \in 1..Len(records[k].id) :
              records[k].id[i] = LineText(data, h)[i + 1]

\* a record whose header has an embedded space, and one whose header text
\* itself begins with '>'
C5_Witness ==
    /\ pc = "done"
    /\ \E k \in 1..Len(records) : records[k].id = <<"s", " ", "d">>
    /\ \E k \in 1..Len(records) : records[k].id = <<">">>

\* C8: when the first line of the input does not begin with '>', reading
\* ends in a malformed-input error.
C8_LeadingNonHeaderIsError ==
    (pc = "done" /\ data # <<>> /\ data[1] # ">") => outcome = "error"

\* the header lines of the file
C23_Headers == MarkedLines(data, ">")

\* the lines between the k-th header and the next one (or the end)
C23_LinesOf(k) ==
    {q \in LineStarts(data) :
        /\ KthOf(C23_Headers, k) < q
        /\ k < Cardinality(C23_Headers) => q < KthOf(C23_Headers, k + 1)}

\* every record returned is the record of the header of its rank, and its
\* sequence is made of the lines between that header and the next one
C23_InHeaderOrder ==
    /\ Len(records) <= Cardinality(C23_Headers)
    /\ \A k \in 1..Len(records) :
          /\ <<">">> \o records[k].id = LineText(data, KthOf(C23_Headers, k))
          /\ records[k].sequence = ConcatLines(data, C23_LinesOf(k))

\* a step that emits a record emits one record, the k-th, and it is the
\* step that reads the (k+1)-th header line or that finds the end of input
C23_EmittedAtNextHeader ==
    records' # records =>
        /\ Len(records') = Len(records) + 1
        /\ SubSeq(records', 1, Len(records)) = records
        /\ IF Len(records') < Cardinality(C23_Headers)
           THEN pos = KthOf(C23_Headers, Len(records') + 1) /\ pos' > pos
           ELSE pos > Len(data)

\* C23: read_fasta emits the record of the k-th header only when it meets
\* the (k+1)-th header or the end of the input; records come out in header
\* order, each once, and the sequence of a record is made of the lines that
\* follow its own header and of no other line.
C23_RecordEmittedAtNextHeader ==
    [](C23_InHeaderOrder) /\ [][C23_EmittedAtNextHeader]_vars

\* lines before the first header, then two records with different
\* sequences, read to the end
C23_Witness ==
    /\ pc = "done"
    /\ Len(records) = 2
    /\ data[1] # ">"
    /\ records[1].sequence = <<"G">>
    /\ records[2].sequence = <<"A", "C">>

(***************************************************************************)
(* Claims about write_wrapped_lines + read_fasta, under SpecGen            *)
(***************************************************************************)

\* C4: whatever the wrap width, parsing the file written returns exactly the
\* ids and sequences that were written (so any two widths give the same
\* sequence, equal to the concatenation of the wrapped lines).
C4_RewrapInvariant ==
    pc = "done" => records = written

\* a sequence written over several wrapped lines has been parsed
C4_Witness ==
    /\ pc = "done"
    /\ line_length \in 1..MaxWidth
    /\ \E k \in 1..Len(written) : Len(written[k].sequence) > line_length
    /\ Len(records) = Len(written)

(***************************************************************************)
(* Claims about the prseq package readers, under SpecReader                *)
(***************************************************************************)
\* a reader over the plain text, built without a hint
PlainReader(text) == [buf |-> text, cursor |-> 1, capacity |-> 0, extra |-> 0]

IsPrefix(a, b) == Len(a) <= Len(b) /\ a = SubSeq(b, 1, Len(a))

\* C11: once a pull has signalled exhaustion, every later pull signals
\* exhaustion too and no record is returned any more.
C11_ExhaustionIsFinal ==
    [][outcome = "stop" => (outcome' = "stop" /\ records' = records)]_vars

\* pulls went on after the exhaustion of a reader that had returned records
C11_Witness ==
    /\ pc = "ready"
    /\ outcome = "stop"
    /\ native[1].extra >= 2
    /\ Len(records) >= 1

\* C13: a constructor given both a path and a file object fails with
\* "Cannot specify both path and file"; no reader exists and no record is
\* ever produced.
C13_BothSelectorsRejected ==
    (pc # "call" /\ call.path # <<>> /\ call.file # <<>>)
    => /\ pc = "failed"
       /\ outcome = "Cannot specify both path and file"
       /\ native = <<>>
       /\ records = <<>>

C13_Witness ==
    /\ pc = "failed"
    /\ call.fn = "FastqReader"
    /\ call.path = <<ExistingPath>>
    /\ call.file = <<"f">>
    /\ content # <<>>

\* C14: whatever the envelope (gzip, bzip2, none) and whatever the selector,
\* the reader works on the logical text: it returns the records, or the
\* parse error, of a reader over the uncompressed text.
C14_CodecTransparent ==
    LET plain == ListReader(Fmt(call), PlainReader(content)) IN
    /\ pc = "ready" => native[1].buf = content
    /\ (pc = "ready" /\ codec = "none") => native[1].buf = data
    /\ outcome = "stop" => plain = [err |-> "", list |-> records]
    /\ outcome = "parse_error" => plain.err = "parse_error"

\* two records read from a bzip2 source given as an open file object
C14_Witness ==
    /\ codec = "bzip2"
    /\ call.file = <<"f">>
    /\ call.path = <<>>
    /\ outcome = "stop"
    /\ Len(records) = 2

\* C16: the outcome of a call, records or error, is the outcome of the same
\* call made without a size hint.
C16_HintDoesNotChangeParsing ==
    LET unhinted == ListOf(Fmt(call), ArgsOf([call EXCEPT !.hint = <<>>]), data)
    IN /\ pc = "failed" => unhinted.err = outcome
       /\ outcome = "stop" => unhinted = [err |-> "", list |-> records]
       /\ (pc = "ready" /\ unhinted.err = "") => IsPrefix(records, unhinted.list)

\* a reader built with hint 1 has returned a sequence longer than the hint
C16_Witness ==
    /\ call.hint = <<1>>
    /\ call.fn = "FastqReader.from_file"
    /\ outcome = "stop"
    /\ Len(records) >= 1
    /\ native[1].capacity > 1

\* C19: the read-all function returns the list that iterating a reader over
\* the same source returns (and fails where iterating fails).
C19_ReadAllEqualsIteration ==
    (listed # <<>> /\ (outcome = "stop" \/ pc = "failed"))
    => IF pc = "failed" THEN listed[1].err = outcome /\ listed[1].list = <<>>
       ELSE listed[1] = [err |-> "", list |-> records]

\* read_fastq on a path (the native read-all branch) against two records
\* pulled from a reader
C19_Witness ==
    /\ listed # <<>>
    /\ outcome = "stop"
    /\ Fmt(call) = "fastq"
    /\ call.path = <<ExistingPath>>
    /\ Len(records) = 2

\* C20: opening a path that does not exist fails with IOError when the
\* reader is constructed; no reader exists and no record is ever returned.
C20_MissingPathIsIOError ==
    (pc # "call" /\ call.file = <<>> /\ call.path = <<MissingPath>>)
    => /\ pc = "failed"
       /\ outcome = "IOError"
       /\ native = <<>>
       /\ records = <<>>

C20_Witness ==
    /\ pc = "failed"
    /\ outcome = "IOError"
    /\ call.fn = "FastaReader"
    /\ content # <<>>

\* the well-formed FASTQ chunks and the record each one holds
GoodFastq ==
    { [text |-> Lines(<< <<"@", "a">>, <<"A", "C">>, <<"+">>, <<"I", "I">> >>),
       record |-> FastqRecord(<<"a">>, <<"A", "C">>, <<"I", "I">>)],
      [text |-> Lines(<< <<"@", "b">>, <<"A">>, <<"+", "b">>, <<"J">> >>),
       record |-> FastqRecord(<<"b">>, <<"A">>, <<"J">>)] }

LeadingGood(text) == {g \in GoodFastq : IsPrefix(g.text, text)}

\* the complete records at the start of a FASTQ text, and what follows them
RECURSIVE CompleteFastq(_)
CompleteFastq(text) ==
    IF LeadingGood(text) = {} THEN [records |-> <<>>, rest |-> text]
    ELSE LET g == CHOOSE x \in LeadingGood(text) : TRUE
             more == CompleteFastq(SubSeq(text, Len(g.text) + 1, Len(text)))
         IN [records |-> <<g.record>> \o more.records, rest |-> more.rest]

\* the text holds a malformed record: FASTQ text left over after its
\* complete records, or a FASTA text that does not begin with a header
Malformed(fmt, text) ==
    IF fmt = "fastq" THEN CompleteFastq(text).rest # <<>>
    ELSE text # <<>> /\ text[1] # ">"

CompleteBefore(fmt, text) ==
    IF fmt = "fastq" THEN CompleteFastq(text).records ELSE <<>>

\* C22: a parse error is raised by the pull that would have returned the
\* malformed record: that pull returns no record, the records returned by
\* the pulls before it are the complete records that precede the malformed
\* one, in order, and a reader over an input with a malformed record never
\* signals normal exhaustion.
C22_ErrorAtTheMalformedRecord ==
    /\ [](outcome = "parse_error" =>
             /\ Malformed(Fmt(call), content)
             /\ records = CompleteBefore(Fmt(call), content))
    /\ [](outcome = "stop" => ~Malformed(Fmt(call), content))
    /\ [][outcome' = "parse_error" => records' = records]_vars

\* a FASTQ reader has returned one record and failed on the second, whose
\* quality is shorter than its sequence at the end of the input
C22_Witness ==
    /\ outcome = "parse_error"
    /\ Fmt(call) = "fastq"
    /\ Len(records) = 1
    /\ content = Lines(<< <<"@", "b">>, <<"A">>, <<"+", "b">>, <<"J">>,
                          <<"@", "a">>, <<"A", "C">>, <<"+">>, <<"I">> >>)

(***************************************************************************)
(* read_fastq over two generated files that differ in the separator text   *)
(***************************************************************************)
MaxPlusRecords == 2

PlusRecords ==
    { FastqRecord(<<"a">>, <<"A", "C">>, <<"+", "I">>),
      FastqRecord(<<"b">>, <<"G">>, <<"@">>) }

\* the text after '+': nothing, the id of record a, something else
PlusTexts == { <<>>, <<"a">>, <<"x">> }

\* generate_fastq, lines 154-164, with the text after '+' as a parameter
fastq_record_text(r, plus, ll) ==
    <<"@">> \o r.id \o <<NL>> \o write_wrapped_lines(r.sequence, ll)
        \o <<"+">> \o plus \o <<NL>> \o write_wrapped_lines(r.quality, ll)

RECURSIVE generate_fastq(_, _, _)
generate_fastq(rs, plus, ll) ==
    IF rs = <<>> THEN <<>>
    ELSE fastq_record_text(Head(rs), Head(plus), ll)
             \o generate_fastq(Tail(rs), Tail(plus), ll)

InitPlus ==
    /\ \E n \in 0..MaxPlusRecords, ll \in {-1, 1} :
         \E rs \in [1..n -> PlusRecords], p1 \in [1..n -> PlusTexts],
            p2 \in [1..n -> PlusTexts] :
            /\ written = rs
            /\ line_length = ll
            /\ alt = << generate_fastq(rs, p1, ll), generate_fastq(rs, p2, ll) >>
            /\ ReaderStart(generate_fastq(rs, p1, ll), "id")
    /\ first = <<>>
    /\ call = NoCall
    /\ content = <<>>
    /\ codec = "none"
    /\ native = <<>>
    /\ listed = <<>>
    /\ zc = <<>>
    /\ st = <<>>
    /\ cli = <<>>

\* the first call has returned; read_fastq is called on the second file
Rerun ==
    /\ pc = "done"
    /\ first = <<>>
    /\ first' = <<records>>
    /\ data' = alt[2]
    /\ pos' = 1
    /\ pc' = "id"
    /\ outcome' = "running"
    /\ records' = <<>>
    /\ id_str' = <<>>
    /\ seq_parts' = <<>>
    /\ seq_str' = <<>>
    /\ qual_parts' = <<>>
    /\ qual_length' = 0
    /\ UNCHANGED <<line, current_id, current_seq, written, line_length, alt,
                   call, content, codec, native, listed, zc, st, cli>>

NextPlus == NextFastq \/ Rerun

SpecPlus == InitPlus /\ [][NextPlus]_vars

(***************************************************************************)
(* read_fastq over files written by generate_fastq with quality text from  *)
(* generate_quality_string                                                 *)
(***************************************************************************)
MaxQualRecords == 2

\* generate_data.py line 38: quality_chars holds '+', '>' and '@'
quality_chars == {"+", ">", "@", "I"}

\* line 39: every string of the given length over quality_chars
generate_quality_string(length) == [1..length -> quality_chars]

\* the sequences written: none, one base, two bases
QualSequences == { <<>>, <<"A">>, <<"A", "C">> }

\* lines 150-152: the quality has the length of the sequence
QualRecords ==
    UNION { { FastqRecord(<<"a">>, sequence, quality) :
                quality \in generate_quality_string(Len(sequence)) } :
            sequence \in QualSequences }

\* line 161: plus_line = "+\n"
plus_line(n) == [i \in 1..n |-> <<>>]

InitQual ==
    /\ ExtIdle
    /\ \E n \in 0..MaxQualRecords, ll \in {-1, 1, 2} :
         \E rs \in [1..n -> QualRecords] :
            /\ written = rs
            /\ line_length = ll
            /\ ReaderStart(generate_fastq(rs, plus_line(n), ll), "id")

SpecQual == InitQual /\ [][NextFastq]_vars

(***************************************************************************)
(* Either reader over a file and over the same file without its last      *)
(* newline                                                                 *)
(***************************************************************************)
InitNewline ==
    /\ \/ \E ls \in SeqsUpTo(FastqLineKinds, MaxBothLines) :
            /\ ReaderStart(FileOf(ls, TRUE), "id")
            /\ alt = << FileOf(ls, TRUE), FileOf(ls, FALSE) >>
            /\ call = Call("read_fastq", <<ExistingPath>>, <<>>, <<>>)
       \/ \E ls \in SeqsUpTo(FastaLineKinds, MaxBothLines) :
            /\ ReaderStart(FileOf(ls, TRUE), "loop")
            /\ alt = << FileOf(ls, TRUE), FileOf(ls, FALSE) >>
            /\ call = Call("read_fasta", <<ExistingPath>>, <<>>, <<>>)
    /\ written = <<>>
    /\ line_length = -1
    /\ first = <<>>
    /\ content = <<>>
    /\ codec = "none"
    /\ native = <<>>
    /\ listed = <<>>
    /\ zc = <<>>
    /\ st = <<>>
    /\ cli = <<>>

\* the first call has returned; the same function is called on the second
\* file
Reread ==
    /\ pc = "done"
    /\ first = <<>>
    /\ first' = <<records>>
    /\ data' = alt[2]
    /\ pos' = 1
    /\ pc' = IF call.fn = "read_fastq" THEN "id" ELSE "loop"
    /\ outcome' = "running"
    /\ records' = <<>>
    /\ line' = <<>>
    /\ current_id' = <<>>
    /\ current_seq' = <<>>
    /\ id_str' = <<>>
    /\ seq_parts' = <<>>
    /\ seq_str' = <<>>
    /\ qual_parts' = <<>>
    /\ qual_length' = 0
    /\ UNCHANGED <<written, line_length, alt, call, content, codec, native,
                   listed, zc, st, cli>>

NextNewline == NextFastq \/ NextFasta \/ Reread

SpecNewline == InitNewline /\ [][NextNewline]_vars

(***************************************************************************)
(* Claims settled under SpecBoth                                           *)
(***************************************************************************)
\* the input is exhausted and no record is partly assembled: read_fastq is
\* about to read an id line; read_fasta has left its loop with no header
\* open, or has yielded its last record
AtCleanEnd ==
    /\ pos > Len(data)
    /\ \/ pc = "id"
       \/ pc = "loop" /\ current_id = <<>>
       \/ pc = "final"

\* C12: reading an empty input yields zero records and normal exhaustion
\* with no error; more generally, when the end of the input arrives and no
\* record is partly assembled, the pull that meets it terminates normally:
\* it signals exhaustion, returns no record and raises no error, for FASTA
\* and for FASTQ.
C12_CleanEndIsNormal ==
    /\ [](outcome # "error")
    /\ [](AtCleanEnd => ENABLED <<NextBoth>>_vars)
    /\ [](data = <<>> /\ pc = "done" => records = <<>> /\ outcome = "stop")
    /\ [][AtCleanEnd =>
             pc' = "done" /\ outcome' = "stop" /\ records' = records]_vars

\* an input with records has been read to its end and exhaustion signalled
C12_Witness ==
    /\ pc = "done"
    /\ outcome = "stop"
    /\ pos > Len(data)
    /\ records # <<>>

(***************************************************************************)
(* Claims settled under SpecPlus                                           *)
(***************************************************************************)
\* C17: the text after '+' on a FASTQ separator line has no effect on the
\* parse result.  The line that begins with '+' ends the sequence whatever
\* follows the '+', leaving the sequence lines read so far as the sequence;
\* reading a second file that differs from the first only in those texts
\* returns the same records; and no text, equal to the id or not, is an error.
C17_SeparatorTextIgnored ==
    /\ [](outcome # "error")
    /\ [](pc = "done" /\ first # <<>> => records = first[1] /\ outcome = "stop")
    /\ [][pc = "seq" /\ pos <= Len(data) /\ data[pos] = "+" =>
             pc' = "qual" /\ seq_str' = join(seq_parts)]_vars

\* both files have been read to the end; they differ, the second has a
\* separator text that is not the id of its record, and the records read
\* are the two records generated
C17_Witness ==
    /\ pc = "done"
    /\ first # <<>>
    /\ alt[1] # alt[2]
    /\ Len(records) = 2
    /\ records = written
    /\ \E i \in 1..Len(data) - 2 :
          data[i] = "+" /\ data[i + 1] = "x" /\ IsLineStart(data, i)

(***************************************************************************)
(* Claims settled under SpecStream                                         *)
(***************************************************************************)
\* the valid sequence lines of a streaming record
ValidLines(r) == SubSeq(r.sequence_lines, 1, r.valid_count)

\* C15: for every input, the copying reader, the whole-file zero-copy
\* reader and the streaming reader return the same number of records, in
\* the same order, with equal field values: for each k the decoded header
\* of zero-copy record k and the header of streaming record k equal the
\* header of copying record k, and the join of the sequence lines of
\* zero-copy record k (decoded) and of the valid lines of streaming record k
\* equals the sequence of copying record k.
C15_StrategiesAgree ==
    /\ pc \in {"streaming", "done"} =>
          /\ Len(zc.out) = Len(records)
          /\ \A k \in 1..Len(zc.out) :
                /\ decode_utf8(zc.out[k].header_bytes) = records[k].header
                /\ decode_utf8(join(zc.out[k].sequence_lines))
                       = records[k].sequence
    /\ \A k \in 1..Len(st.out) :
          /\ k <= Len(records)
          /\ st.out[k].header = records[k].header
          /\ join(ValidLines(st.out[k])) = records[k].sequence
    /\ pc = "done" => Len(st.out) = Len(records)

\* the three readers have read a file of two records; the first has two
\* sequence lines, the second one, so that the reused list of the streaming
\* reader holds an entry left over from the first record
C15_Witness ==
    /\ pc = "done"
    /\ Len(records) = 2
    /\ Len(zc.out[1].sequence_lines) = 2
    /\ st.out[2].valid_count = 1
    /\ Len(st.out[2].sequence_lines) = 2
    /\ zc.out[1].header_bytes # records[1].header

\* the records of the streaming reader from state s to the end
RECURSIVE StreamListFrom(_)
RECURSIVE StreamListAfter(_)
StreamListAfter(r) ==
    CASE r.kind = "record" ->
           [ StreamListFrom(r.reader) EXCEPT
               !.out = <<StreamingFastaReader_next(r)>> \o @ ]
      [] r.kind = "stop" -> [out |-> <<>>, status |-> "stop"]
      [] OTHER -> [out |-> <<>>, status |-> "parse_error"]

StreamListFrom(s) == StreamListAfter(StreamingFastaNext(s))

\* what the streaming reader returns with a working buffer that holds the
\* whole input
WholeInputBuffer == StreamListFrom(StreamingOpen(content, Len(content) + 1))

\* C18: in streaming mode a line longer than the initial working buffer is
\* returned complete: for every initial buffer size and every line length,
\* the records returned by the streaming reader, and the way it ends, are
\* those obtained with a buffer large enough to hold the whole input.
C18_BufferSizeDoesNotChangeRecords ==
    /\ IsPrefix(st.out, WholeInputBuffer.out)
    /\ st.status # "running" =>
          /\ st.out = WholeInputBuffer.out
          /\ st.status = WholeInputBuffer.status

\* the streaming reader has finished a file in which a sequence line of a
\* returned record, with its line end, is longer than the initial buffer
C18_Witness ==
    /\ pc = "done"
    /\ st.status = "stop"
    /\ st.reader.cursor.cap > st.reader.buffer_size
    /\ \E k \in 1..Len(st.out) : \E i \in 1..st.out[k].valid_count :
          Len(st.out[k].sequence_lines[i]) + 1 > st.reader.buffer_size

(***************************************************************************)
(* Claims settled under SpecFilter                                         *)
(***************************************************************************)
\* the records of rs whose sequence has at least n characters, in order
RECURSIVE AtLeast(_, _)
AtLeast(rs, n) ==
    IF rs = <<>> THEN <<>>
    ELSE (IF Len(Head(rs).sequence) < n THEN <<>> ELSE <<Head(rs)>>)
             \o AtLeast(Tail(rs), n)

\* the output lines of the records rs: a header line and a sequence line each
RECURSIVE OutputOf(_)
OutputOf(rs) ==
    IF rs = <<>> THEN <<>>
    ELSE << <<">">> \o Head(rs).header, Head(rs).sequence >> \o OutputOf(Tail(rs))

C25_LastNewlineOptional ==
    (pc = "done" /\ first # <<>>) => records = first[1]

\* the same, for read_fasta alone
C25_FastaLastNewlineOptional ==
    (pc = "done" /\ first # <<>> /\ call.fn = "read_fasta")
        => records = first[1]

\* the same, for inputs whose last line is not empty
C25_NonEmptyLastLine ==
    (/\ pc = "done" /\ first # <<>>
     /\ Len(alt[1]) >= 2 /\ alt[1][Len(alt[1]) - 1] # NL)
        => records = first[1]

\* the bytes the buffer holds now at a span
BytesAt(buf, span) == bytes_of(SubSeq(buf, span[1], span[2]))

\* what the k-th record of the zero-copy reader holds now
C26_ZeroCopyNow(k) ==
    [header_bytes |-> BytesAt(zc.buf, zc.views[k].header),
     sequence_lines |-> [i \in 1..Len(zc.views[k].lines) |->
                            BytesAt(zc.buf, zc.views[k].lines[i])]]

\* every record returned by the zero-copy reader holds the bytes it held
\* when it was returned, and they are the fields of the copying reader
C26_ZeroCopyStable ==
    \A k \in 1..Len(zc.out) :
        /\ C26_ZeroCopyNow(k).header_bytes = zc.out[k].header_bytes
        /\ C26_ZeroCopyNow(k).sequence_lines = zc.out[k].sequence_lines
        /\ decode_utf8(join(C26_ZeroCopyNow(k).sequence_lines))
              = records[k].sequence

\* until the next pull of the streaming reader starts, the reused list
\* holds the lines of the record returned last
C26_StreamingValidUntilNextPull ==
    (st.status = "running" /\ st.out # <<>>) =>
        /\ SubSeq(st.reader.lines, 1, Last(st.out).valid_count)
              = ValidLines(Last(st.out))
        /\ join(SubSeq(st.reader.lines, 1, Last(st.out).valid_count))
              = records[Len(st.out)].sequence

\* C26: in whole-file zero-copy mode the bytes of the record returned by
\* pull k are unchanged by every later pull; in streaming mode the reused
\* list is overwritten only by a pull of the streaming reader, so the record
\* returned by pull k holds its correct field values until pull k+1 starts.
C26_RecordsValidInTheirWindow ==
    /\ [](C26_ZeroCopyStable)
    /\ [](C26_StreamingValidUntilNextPull)
    /\ [][zc.buf' = zc.buf]_vars
    /\ [][st.reader.lines' # st.reader.lines => pc = "streaming"]_vars

\* both readers have read two records; the streaming reader has overwritten
\* the lines of its first record with those of the second
C26_Witness ==
    /\ pc = "streaming"
    /\ st.status = "running"
    /\ Len(zc.out) = 2
    /\ Len(st.out) = 2
    /\ zc.out[1].sequence_lines # <<>>
    /\ ValidLines(st.out[1]) # <<>>
    /\ SubSeq(st.reader.lines, 1, st.out[1].valid_count) # ValidLines(st.out[1])

\* the lengths of the lines of a list, added up
RECURSIVE C27_SumOfLengths(_)
C27_SumOfLengths(lines) ==
    IF lines = <<>> THEN 0
    ELSE Len(lines[1]) + C27_SumOfLengths(Tail(lines))

\* C27: for every record of the zero-copy reader, total_length is the sum
\* of the lengths of its sequence lines; for every record of the streaming
\* reader, valid_count <= len(sequence_lines), total_length is the sum of
\* the lengths of the first valid_count lines, and the entries beyond
\* valid_count, left over from longer earlier records, are not counted:
\* total_length is the length of the sequence the copying reader returns.
C27_TotalLengthCountsValidLines ==
    /\ \A k \in 1..Len(zc.out) :
           /\ zc.out[k].total_length = C27_SumOfLengths(zc.out[k].sequence_lines)
           /\ zc.out[k].total_length = Len(records[k].sequence)
    /\ \A k \in 1..Len(st.out) :
           /\ st.out[k].valid_count <= Len(st.out[k].sequence_lines)
           /\ st.out[k].total_length = C27_SumOfLengths(ValidLines(st.out[k]))
           /\ st.out[k].total_length = Len(records[k].sequence)

\* the streaming reader has returned a record whose list holds, beyond
\* valid_count, a non-empty line of a longer earlier record
C27_Witness ==
    /\ zc.out # <<>>
    /\ \E k \in 1..Len(st.out) :
           /\ st.out[k].valid_count >= 1
           /\ st.out[k].valid_count < Len(st.out[k].sequence_lines)
           /\ C27_SumOfLengths(st.out[k].sequence_lines) > st.out[k].total_length

\* C28: on every finite input each pull terminates, ending in a record,
\* exhaustion or an error; a FASTQ reader whose input ends while the
\* quality is still shorter than the sequence does not loop reading at
\* end of input forever.  Stated over single steps of read_fastq under
\* SpecFastq: every step leaves its phase, or consumes input, or completes
\* the quality.  A step that does none of the three leaves the loop
\* condition of line 72 and the file position as they were, so the same
\* iteration follows without end.
C28_EveryIterationMakesProgress ==
    [][\/ pc' # pc
       \/ pos' > pos
       \/ ~(qual_length' < Len(seq_str'))]_vars

(***************************************************************************)
(* Claims settled under SpecQual                                           *)
(***************************************************************************)
\* the reader is in the quality loop with quality still missing, and the
\* next line begins with '@', '+' or '>'
C29_MarkerLineInQuality ==
    /\ pc = "qual"
    /\ quality_incomplete
    /\ pos <= Len(data)
    /\ data[pos] \in {"@", "+", ">"}

\* no record written has an empty sequence
C29_NoEmptySequence == \A k \in 1..Len(written) : written[k].sequence # <<>>

\* C29: while the accumulated quality of a record is shorter than its
\* sequence, a line beginning with '@', '+' or '>' is taken as quality data,
\* never as a header or a separator: it is appended whole, its length is
\* added, and no record starts or ends; so the files written with wrapped
\* quality text that has those characters at line starts are read back as
\* the records written (records with a sequence; the empty ones are the
\* subject of C30).
C29_QualityDecidedByLength ==
    /\ [][C29_MarkerLineInQuality =>
             /\ pc' = "qual"
             /\ qual_parts' = Append(qual_parts, rstrip(readline(data, pos)))
             /\ qual_length' = qual_length + Len(rstrip(readline(data, pos)))
             /\ records' = records
             /\ id_str' = id_str
             /\ seq_str' = seq_str]_vars
    /\ [](pc = "done" /\ C29_NoEmptySequence => records = written)

\* two records have been written with wrapped quality, between them their
\* quality lines begin with '@', with '+' and with '>', and the records
\* read are those written
C29_Witness ==
    /\ pc = "done"
    /\ line_length = 1
    /\ Len(written) = 2
    /\ records = written
    /\ \A c \in {"@", "+", ">"} :
          \E k \in 1..2 : \E i \in 1..Len(written[k].quality) :
              written[k].quality[i] = c

\* C30: for every well-formed FASTQ input the number of records returned
\* is the number of records written, also when records have an empty
\* sequence (no sequence line, or an empty sequence line followed by '+'
\* and an empty quality line): an empty quality line is never read as the
\* header of a further record.
C30_RecordCountIsWritten ==
    pc = "done" => Len(records) = Len(written)

\* the same for the files in which an empty sequence is written on no line
C30_CountWhenWrapped ==
    pc = "done" /\ line_length # -1 => records = written
====
